---- MODULE Spec2Model ----
(***************************************************************************)
(* Model of scripts/detect_early_resignations.py: the incremental          *)
(* early-resignation detector with its three-tier cache                    *)
(* (checked_players_by_match, checked_boards, checked_matches) and the     *)
(* cached player -> board map (player_boards_by_match).                    *)
(*                                                                         *)
(* One run of main() is a sequence of steps: StartRun (load the cache and  *)
(* prefill from the result file), CollectMatch (one match of leagueData    *)
(* per step), ProcessBoard (one board of candidates_by_board per step),    *)
(* Promote, WriteResults, WriteCache.  The remote service (match status,   *)
(* games) changes between runs.  Usernames are the lower-cased names the   *)
(* code compares; a player key "username:color" is the pair                *)
(* <<username, color>>.                                                    *)
(***************************************************************************)
EXTENDS Integers, Sequences, FiniteSets, TLC

VARIABLES
    status,                     \* leagueData.json: match -> status
    games,                      \* remote board JSON: game -> [white, black, moves]
    cache_file,                 \* early_resignations_cache.json
    out_file,                   \* earlyResignations.json (flattened player records)
    pc,                         \* position of main()
    mi,                         \* index of the match the collector loop is at
    bi,                         \* index of the board the classifier loop is at
    checked_players_by_match,   \* match -> set of player keys
    checked_boards,
    checked_matches,
    player_boards_by_match,     \* match -> (player key -> board url)
    candidates_by_board,        \* board -> sequence of candidates
    board_order,                \* insertion order of candidates_by_board
    match_player_set,           \* match -> set of player keys
    match_board_urls,           \* match -> set of board urls
    results,                    \* records emitted by this run
    log,                        \* what this run logged (fetches, decisions)
    prev_log                    \* what the previous run left undone

vars == <<status, games, cache_file, out_file, pc, mi, bi,
          checked_players_by_match, checked_boards, checked_matches,
          player_boards_by_match, candidates_by_board, board_order,
          match_player_set, match_board_urls, results, log, prev_log>>

envVars == <<status, games>>
fileVars == <<cache_file, out_file>>
memVars == <<checked_players_by_match, checked_boards, checked_matches,
             player_boards_by_match>>
workVars == <<candidates_by_board, board_order, match_player_set, match_board_urls>>

(***************************************************************************)
(* Bounds and configuration                                                *)
(***************************************************************************)
\* --threshold: max half-moves still considered early (the default)
threshold == 2

\* the half-move count of a game saturates here
MaxMoves == 3

None == "none"

(***************************************************************************)
(* The read-only match data set and the remote resources                   *)
(***************************************************************************)
Matches == {"M1", "M2", "M3"}

\* order of the matches in leagueData.json
MatchOrder == <<"M1", "M2", "M3">>

League(m) == "L1"

SubLeague(m) == IF m = "M1" THEN "S1" ELSE "S2"

\* the match whose life the model follows from registration to the end; the
\* other matches keep the status leagueData.json gives them
Live == {"M1"}

\* matchResult.result contains "forfeit"
Forfeit(m) == m = "M2"

\* playerStats is an empty dict
EmptyStats(m) == m = "M2"

Colors == {"white", "black"}

\* our team's players in the match-detail JSON: one entry per played_as_*
\* field, in document order, with the board url of the player (None if absent)
TeamPlayers(m) ==
    IF m = "M1"
    THEN << [username |-> "alice", color |-> "white", board |-> "B1"],
            [username |-> "alice", color |-> "black", board |-> "B1"],
            [username |-> "bob",   color |-> "white", board |-> "B2"],
            [username |-> "carol", color |-> "white", board |-> None] >>
    ELSE IF m = "M3"
    THEN << [username |-> "dave", color |-> "white", board |-> None] >>
    ELSE << >>

Boards == {"B1", "B2"}

Games == {"g1", "g2", "g3"}

\* the games list of a board JSON, in document order
BoardGames(b) == IF b = "B1" THEN <<"g1", "g2">> ELSE <<"g3">>

GameMatch(g) == "M1"

white_user(g) ==
    CASE g = "g1" -> "alice"
      [] g = "g2" -> "xavier"
      [] g = "g3" -> "bob"

black_user(g) ==
    CASE g = "g1" -> "xavier"
      [] g = "g2" -> "alice"
      [] g = "g3" -> "yann"

\* result codes a side of a game can carry ("" while the game is open)
TerminalPairs ==
    { [white |-> "resigned", black |-> "win"],
      [white |-> "win",      black |-> "resigned"] }

Statuses == {"open", "in_progress", "finished"}

GameOpen(g) == games[g].white = "" /\ games[g].black = ""

\* the game's termination text: mentions resignation when either side resigned
Termination(g) ==
    IF games[g].white = "resigned" \/ games[g].black = "resigned"
    THEN "won by resignation" ELSE ""

(***************************************************************************)
(* Keys, records                                                           *)
(***************************************************************************)
Users == {"alice", "bob", "carol", "dave"}

PlayerKeys == Users \X Colors

\* f"{username}:{color_name}"
PlayerKey(username, color) == <<username, color>>

EmptyCache ==
    [ checked_players_by_match |-> [m \in Matches |-> {}],
      checked_boards |-> {},
      checked_matches |-> {},
      player_boards_by_match |-> [m \in Matches |-> << >>] ]

EmptyLog ==
    [ fetched |-> {},       \* urls handed to fetch_json
      failed  |-> {},       \* urls whose fetch gave nothing usable
      evals   |-> {},       \* one entry per (game, candidate) decision
      cands   |-> {} ]      \* candidates enqueued by the collector

\* what is remembered of a run once the process has exited
EmptyPrev ==
    [ failed |-> {},        \* urls whose fetch failed
      left   |-> {},        \* candidates enqueued and not marked done
      final  |-> FALSE,     \* the run saw remote data that can no longer change
      cut    |-> "no",      \* where the run was killed, if it was
      ever   |-> {} ]       \* <<match, player key>> some run marked done on a game

(***************************************************************************)
(* Pure helpers of the classifier                                          *)
(***************************************************************************)
\* Result codes that mean a game is permanently over
DEFINITIVE_RESULTS ==
    { "win", "loss", "agreed", "stalemate", "checkmated", "timeout", "resigned",
      "timevsinsufficient", "insufficient", "repetition", "50move", "abandoned" }

\* Python's `r in result_field` on the result codes of the model: a code
\* contains itself, and "timevsinsufficient" contains "insufficient"
Contains(r, result_field) ==
    \/ r = result_field
    \/ r = "insufficient" /\ result_field = "timevsinsufficient"

game_finished(result_field) ==
    result_field # "" /\ \E r \in DEFINITIVE_RESULTS : Contains(r, result_field)

above_threshold(moves) == moves > threshold

\* (variant) strict comparison with the threshold
is_early_resignation_strict(resigned, moves) == resigned /\ moves < threshold

is_early_resignation(resigned, moves) == resigned /\ moves <= threshold

\* person_side: the side of the game on which the candidate's username sits
person_side(g, username) == IF username = white_user(g) THEN "white" ELSE "black"

\* str(side_obj.get("result", "")).lower()
result_field_of(g, side) == games[g][side]

\* (variant) resignation read off the termination text of the game
resigned_by_termination(g, side) == Termination(g) = "won by resignation"

\* resigned = result_field == "resigned"
resigned_of(g, side) == result_field_of(g, side) = "resigned"

\* dedup key of a player record inside one match item
DedupKey(p) == <<p.league, p.subLeague, p.matchUrl, p.username, p.color, p.game_api>>

\* (variant) no guard against a key already present
insert_result_noguard(res, entry) == Append(res, entry)

\* insert_result: append unless the match item already holds the key
insert_result(res, entry) ==
    IF \E i \in 1..Len(res) : DedupKey(res[i]) = DedupKey(entry)
    THEN res
    ELSE Append(res, entry)

\* (variant) the players of an existing match item are appended unfiltered
MergeResults_nofilter(existing, res) == existing \o res

\* (variant) the file is rewritten with this run's results only
MergeResults_overwrite(existing, res) == res

\* the merge of this run's results into the existing file: a player is
\* appended when its key is not among the players the file already had
MergeResults(existing, res) ==
    LET existing_players == { DedupKey(existing[i]) : i \in 1..Len(existing) }
    IN  existing \o SelectSeq(res, LAMBDA p : DedupKey(p) \notin existing_players)

\* (variant) the result file is not read at the start of the run
Prefill_none(cp, file) == cp

\* (variant) the prefill ignores the color of the record
Prefill_bothcolors(cp, file) ==
    [ m \in Matches |->
        cp[m] \cup { PlayerKey(file[i].username, c) :
                       i \in { j \in 1..Len(file) : file[j].matchUrl = m }, c \in Colors } ]

\* prefill of checked_players_by_match from the existing result file
Prefill(cp, file) ==
    [ m \in Matches |->
        cp[m] \cup { PlayerKey(file[i].username, file[i].color) :
                       i \in { j \in 1..Len(file) : file[j].matchUrl = m } } ]

(***************************************************************************)
(* Initial state                                                           *)
(***************************************************************************)
Init ==
    /\ status = [m \in Matches |-> IF Forfeit(m) THEN "finished" ELSE "open"]
    /\ games = [g \in Games |-> [white |-> "", black |-> "", moves |-> 0]]
    /\ cache_file = EmptyCache
    /\ out_file = << >>
    /\ pc = "idle"
    /\ mi = 1
    /\ bi = 1
    /\ checked_players_by_match = [m \in Matches |-> {}]
    /\ checked_boards = {}
    /\ checked_matches = {}
    /\ player_boards_by_match = [m \in Matches |-> << >>]
    /\ candidates_by_board = [b \in Boards |-> << >>]
    /\ board_order = << >>
    /\ match_player_set = [m \in Matches |-> {}]
    /\ match_board_urls = [m \in Matches |-> {}]
    /\ results = << >>
    /\ log = EmptyLog
    /\ prev_log = EmptyPrev

(***************************************************************************)
(* The remote service and the ingestion pipeline (between runs)            *)
(***************************************************************************)
MatchGames(m) == { g \in Games : GameMatch(g) = m }

\* a match starts, and finishes once all its games are over
AdvanceStatus(m) ==
    /\ pc = "idle"
    /\ m \in Live
    /\ \/ status[m] = "open" /\ status' = [status EXCEPT ![m] = "in_progress"]
       \/ /\ status[m] = "in_progress"
          /\ \A g \in MatchGames(m) : ~GameOpen(g)
          /\ status' = [status EXCEPT ![m] = "finished"]
    /\ UNCHANGED <<games, fileVars, pc, mi, bi, memVars, workVars, results, log, prev_log>>

\* a half-move is played in an open game
PlayMove(g) ==
    /\ pc = "idle"
    /\ status[GameMatch(g)] = "in_progress"
    /\ GameOpen(g)
    /\ games[g].moves < MaxMoves
    /\ games' = [games EXCEPT ![g].moves = @ + 1]
    /\ UNCHANGED <<status, fileVars, pc, mi, bi, memVars, workVars, results, log, prev_log>>

\* an open game ends: one side resigns, or a draw is agreed
EndGame(g) ==
    /\ pc = "idle"
    /\ status[GameMatch(g)] = "in_progress"
    /\ GameOpen(g)
    /\ \E t \in TerminalPairs :
          games' = [games EXCEPT ![g].white = t.white, ![g].black = t.black]
    /\ UNCHANGED <<status, fileVars, pc, mi, bi, memVars, workVars, results, log, prev_log>>

\* every live match is finished and every game has its result: the remote
\* data every later run reads is the data this state shows
RemoteFinal ==
    /\ \A m \in Live : status[m] = "finished"
    /\ \A g \in Games : ~GameOpen(g)

(***************************************************************************)
(* main(): load                                                            *)
(***************************************************************************)
\* (variant) the cache file is never read back: every run starts empty
LoadedCache_empty == EmptyCache

\* (variant) checked_matches is not read back from the cache file
LoadedCache_nomatches == [cache_file EXCEPT !.checked_matches = {}]

\* cache = json.load(f): the four structures of the cache file
LoadedCache == cache_file

StartRun ==
    /\ pc = "idle"
    /\ checked_players_by_match' = Prefill(LoadedCache.checked_players_by_match, out_file)
    /\ checked_boards' = LoadedCache.checked_boards
    /\ checked_matches' = LoadedCache.checked_matches
    /\ player_boards_by_match' = LoadedCache.player_boards_by_match
    /\ candidates_by_board' = [b \in Boards |-> << >>]
    /\ board_order' = << >>
    /\ match_player_set' = [m \in Matches |-> {}]
    /\ match_board_urls' = [m \in Matches |-> {}]
    /\ results' = << >>
    /\ log' = EmptyLog
    /\ mi' = 1
    /\ bi' = 1
    /\ pc' = "collect"
    /\ UNCHANGED <<envVars, fileVars, prev_log>>

(***************************************************************************)
(* main(): the candidate collector, one match per step                     *)
(***************************************************************************)
\* the entries of the cached player -> board map, in the order they were stored
CachedEntries(m) ==
    LET kept == SelectSeq(TeamPlayers(m),
                    LAMBDA p : PlayerKey(p.username, p.color) \in DOMAIN player_boards_by_match[m])
    IN  [ i \in 1..Len(kept) |->
            [ username |-> kept[i].username, color |-> kept[i].color,
              board |-> player_boards_by_match[m][PlayerKey(kept[i].username, kept[i].color)] ] ]

\* (variant) every entry with a board url is enqueued, done or not
Outstanding_nofilter(m, entries) == SelectSeq(entries, LAMBDA p : p.board # None)

\* the entries not yet done that have a board url: the fetch candidates
Outstanding(m, entries) ==
    SelectSeq(entries,
        LAMBDA p : /\ PlayerKey(p.username, p.color) \notin checked_players_by_match[m]
                   /\ p.board # None)

Candidate(m, p) == [username |-> p.username, color |-> p.color, match |-> m]

\* candidates_by_board.setdefault(board_url, []).append(...)
Enqueue(cbb, m, out) ==
    [ b \in Boards |->
        LET mine == SelectSeq(out, LAMBDA p : p.board = b)
        IN  cbb[b] \o [ i \in 1..Len(mine) |-> Candidate(m, mine[i]) ] ]

RECURSIVE AppendNew(_, _)
\* the boards of `out` that are new keys of candidates_by_board, in order
AppendNew(order, out) ==
    IF out = << >> THEN order
    ELSE LET b == Head(out).board
         IN  AppendNew(IF \E i \in 1..Len(order) : order[i] = b
                       THEN order ELSE Append(order, b),
                       Tail(out))

\* the board map entries a fresh match-detail fetch stores
BoardMapOf(m, entries) ==
    LET withBoard == { i \in 1..Len(entries) : entries[i].board # None }
    IN  [ k \in { PlayerKey(entries[i].username, entries[i].color) : i \in withBoard } |->
            entries[CHOOSE i \in withBoard :
                        PlayerKey(entries[i].username, entries[i].color) = k].board ]

\* (variant) the cached map is never used
HasBoardMap_never(m) == FALSE

\* `match_url in player_boards_by_match`
HasBoardMap(m) == DOMAIN player_boards_by_match[m] # {}

\* what both branches of the collector do with the entries of a match
Register(m, entries) ==
    LET out == Outstanding(m, entries)
    IN  /\ match_player_set' =
              [match_player_set EXCEPT ![m] =
                  @ \cup { PlayerKey(entries[i].username, entries[i].color) : i \in 1..Len(entries) }]
        /\ match_board_urls' =
              [match_board_urls EXCEPT ![m] = @ \cup { out[i].board : i \in 1..Len(out) }]
        /\ candidates_by_board' = Enqueue(candidates_by_board, m, out)
        /\ board_order' = AppendNew(board_order, out)
        /\ log' = [log EXCEPT !.cands = @ \cup { Candidate(m, out[i]) : i \in 1..Len(out) },
                              !.fetched = IF HasBoardMap(m) THEN @ ELSE @ \cup {m}]

\* the status filter and the checked_matches filter
Skipped(m) ==
    \/ status[m] \notin {"in_progress", "finished"}
    \/ m \in checked_matches

\* (variant) no match is auto-cached
NoGamesMatch_never(m) == FALSE

\* forfeit/walkover, or finished with empty playerStats
NoGamesMatch(m) ==
    \/ Forfeit(m)
    \/ status[m] = "finished" /\ EmptyStats(m)

\* outcomes of fetch_json(match_url) followed by the team lookup
MatchFetchOutcomes == {"ok", "fail", "noteam"}

CollectMatch ==
    /\ pc = "collect"
    /\ mi <= Len(MatchOrder)
    /\ LET m == MatchOrder[mi]
       IN  \/ /\ Skipped(m)
              /\ UNCHANGED <<memVars, workVars, log>>
           \/ /\ ~Skipped(m)
              /\ NoGamesMatch(m)
              /\ checked_matches' = checked_matches \cup {m}
              /\ UNCHANGED <<checked_players_by_match, checked_boards,
                             player_boards_by_match, workVars, log>>
           \/ /\ ~Skipped(m)
              /\ ~NoGamesMatch(m)
              /\ HasBoardMap(m)
              /\ Register(m, CachedEntries(m))
              /\ UNCHANGED memVars
           \/ /\ ~Skipped(m)
              /\ ~NoGamesMatch(m)
              /\ ~HasBoardMap(m)
              /\ \E outcome \in MatchFetchOutcomes :
                    IF outcome = "ok" /\ TeamPlayers(m) # << >>
                    THEN /\ Register(m, TeamPlayers(m))
                         /\ player_boards_by_match' =
                               [player_boards_by_match EXCEPT ![m] = BoardMapOf(m, TeamPlayers(m))]
                         /\ UNCHANGED <<checked_players_by_match, checked_boards, checked_matches>>
                    ELSE /\ log' = [log EXCEPT !.fetched = @ \cup {m}, !.failed = @ \cup {m}]
                         /\ UNCHANGED <<memVars, workVars>>
    /\ mi' = mi + 1
    /\ pc' = IF mi = Len(MatchOrder) THEN "boards" ELSE "collect"
    /\ UNCHANGED <<envVars, fileVars, bi, results, prev_log>>

(***************************************************************************)
(* main(): the classifier, one board per step                              *)
(***************************************************************************)
IsDone(cp, c) == PlayerKey(c.username, c.color) \in cp[c.match]

\* remaining: the candidates of the board not yet marked done
Remaining(cp, candidates) == SelectSeq(candidates, LAMBDA c : ~IsDone(cp, c))

\* the record built for an early resignation
Entry(c, g, b, side, moves) ==
    [ league    |-> League(c.match),
      subLeague |-> SubLeague(c.match),
      matchUrl  |-> c.match,
      username  |-> c.username,
      color     |-> side,
      moves_ply |-> moves,
      game_api  |-> g,
      board_api |-> b ]

\* the body of the inner loop: one candidate against one game
EvalCandidate(st, b, g, c) ==
    IF c.username \notin {white_user(g), black_user(g)}
    THEN st
    ELSE LET side     == person_side(g, c.username)
             result   == result_field_of(g, side)
             resigned == resigned_of(g, side)
             moves    == games[g].moves
             done     == game_finished(result) \/ above_threshold(moves)
             early    == done /\ is_early_resignation(resigned, moves)
             ev       == [ username |-> c.username, color |-> c.color, match |-> c.match,
                           game |-> g, side |-> side, result |-> result, moves |-> moves,
                           done |-> done, early |-> early ]
         IN  [ cp    |-> IF done
                         THEN [st.cp EXCEPT ![c.match] = @ \cup {PlayerKey(c.username, c.color)}]
                         ELSE st.cp,
               res   |-> IF early
                         THEN insert_result(st.res, Entry(c, g, b, side, moves))
                         ELSE st.res,
               rem   |-> IF done
                         THEN SelectSeq(st.rem, LAMBDA r : r # c)
                         ELSE st.rem,
               evals |-> st.evals \cup {ev} ]

RECURSIVE EvalCandidates(_, _, _, _)
\* for ... in list(remaining): the snapshot taken when the game is entered
EvalCandidates(st, b, g, snapshot) ==
    IF snapshot = << >> THEN st
    ELSE EvalCandidates(EvalCandidate(st, b, g, Head(snapshot)), b, g, Tail(snapshot))

RECURSIVE EvalGames(_, _, _)
\* for idx, game in enumerate(games)
EvalGames(st, b, gs) ==
    IF gs = << >> THEN st
    ELSE EvalGames(EvalCandidates(st, b, Head(gs), st.rem), b, Tail(gs))

\* "Cache this board only when every candidate on it is now done"
AllDone(cp, candidates) == \A i \in 1..Len(candidates) : IsDone(cp, candidates[i])

\* outcomes of fetch_json(board_url)
BoardFetchOutcomes == {"ok", "fail"}

\* (variant) the candidates of a cached board are left as they are
MarkStragglers_none(cp, remaining) == cp

\* the candidates a cached board marks done without a fetch
MarkStragglers(cp, remaining) ==
    [ m \in Matches |->
        cp[m] \cup { PlayerKey(remaining[i].username, remaining[i].color) :
                       i \in { j \in 1..Len(remaining) : remaining[j].match = m } } ]

\* (variant) a failed fetch is handled like a cached board: stragglers marked done
Classified_markonfail(b, remaining, outcome) ==
    LET st0 == [ cp |-> checked_players_by_match, res |-> results,
                 rem |-> remaining, evals |-> {} ]
    IN  IF outcome = "ok" THEN EvalGames(st0, b, BoardGames(b))
        ELSE [st0 EXCEPT !.cp = MarkStragglers(checked_players_by_match, remaining)]

\* the state of the classifier after the fetch of board b returned `outcome`
Classified(b, remaining, outcome) ==
    LET st0 == [ cp |-> checked_players_by_match, res |-> results,
                 rem |-> remaining, evals |-> {} ]
    IN  IF outcome = "ok" THEN EvalGames(st0, b, BoardGames(b)) ELSE st0

\* (variant) every fetched board is cached, done or not
BoardsAfter_always(b, cp, outcome) ==
    IF outcome = "ok" THEN checked_boards \cup {b} ELSE checked_boards

\* checked_boards after the board was handled
BoardsAfter(b, cp, outcome) ==
    IF outcome = "ok" /\ AllDone(cp, candidates_by_board[b])
    THEN checked_boards \cup {b}
    ELSE checked_boards

ProcessBoard ==
    /\ pc = "boards"
    /\ bi <= Len(board_order)
    /\ LET b == board_order[bi]
           remaining == Remaining(checked_players_by_match, candidates_by_board[b])
       IN  \/ /\ remaining = << >>
              /\ UNCHANGED <<checked_players_by_match, checked_boards, results, log>>
           \/ /\ remaining # << >>
              /\ b \in checked_boards
              /\ checked_players_by_match' = MarkStragglers(checked_players_by_match, remaining)
              /\ UNCHANGED <<checked_boards, results, log>>
           \/ /\ remaining # << >>
              /\ b \notin checked_boards
              /\ \E outcome \in BoardFetchOutcomes :
                    LET st == Classified(b, remaining, outcome)
                    IN  /\ checked_players_by_match' = st.cp
                        /\ results' = st.res
                        /\ checked_boards' = BoardsAfter(b, st.cp, outcome)
                        /\ log' = [log EXCEPT !.fetched = @ \cup {b},
                                              !.failed = IF outcome = "ok" THEN @ ELSE @ \cup {b},
                                              !.evals = @ \cup st.evals]
    /\ bi' = bi + 1
    /\ UNCHANGED <<envVars, fileVars, pc, mi, checked_matches, player_boards_by_match,
                   workVars, prev_log>>

\* the classifier loop is over
BoardsDone ==
    /\ pc = "boards"
    /\ bi > Len(board_order)
    /\ pc' = "promote"
    /\ UNCHANGED <<envVars, fileVars, mi, bi, memVars, workVars, results, log, prev_log>>

(***************************************************************************)
(* main(): promotion and the two writes                                    *)
(***************************************************************************)
\* (variant) the loop runs over every match, with or without an expected set
Promotable_allmatches(mps, cp) == { m \in Matches : mps[m] \subseteq cp[m] }

\* (variant) one resolved player is enough
Promotable_any(mps, cp) == { m \in Matches : mps[m] \cap cp[m] # {} }

\* the matches the promotion loop promotes
Promotable(mps, cp) ==
    { m \in Matches : mps[m] # {} /\ mps[m] \subseteq cp[m] }

Promote ==
    /\ pc = "promote"
    /\ LET promoted == Promotable(match_player_set, checked_players_by_match)
       IN  /\ checked_matches' = checked_matches \cup promoted
           /\ checked_players_by_match' =
                 [ m \in Matches |-> IF m \in promoted THEN {} ELSE checked_players_by_match[m] ]
           /\ checked_boards' =
                 checked_boards \ UNION { match_board_urls[m] : m \in promoted }
    /\ pc' = "write_results"
    /\ UNCHANGED <<envVars, fileVars, mi, bi, player_boards_by_match, workVars,
                   results, log, prev_log>>

WriteResults ==
    /\ pc = "write_results"
    /\ out_file' = MergeResults(out_file, results)
    /\ pc' = "write_cache"
    /\ UNCHANGED <<envVars, cache_file, mi, bi, memVars, workVars, results, log, prev_log>>

\* (variant) the board maps of resolved matches are kept
DropBoardMaps_keep(pb, cm) == pb

\* player_boards_by_match without the fully-resolved matches
DropBoardMaps(pb, cm) == [ m \in Matches |-> IF m \in cm THEN << >> ELSE pb[m] ]

WriteCache ==
    /\ pc = "write_cache"
    /\ player_boards_by_match' = DropBoardMaps(player_boards_by_match, checked_matches)
    /\ cache_file' =
          [ checked_players_by_match |-> checked_players_by_match,
            checked_boards |-> checked_boards,
            checked_matches |-> checked_matches,
            player_boards_by_match |-> player_boards_by_match' ]
    /\ pc' = "done"
    /\ UNCHANGED <<envVars, out_file, mi, bi, checked_players_by_match, checked_boards,
                   checked_matches, workVars, results, log, prev_log>>

\* the <<match, player key>> pairs the run marked done when it evaluated a
\* game of a fetched board
Evaluated(l) == { <<ev.match, PlayerKey(ev.username, ev.color)>> : ev \in { e \in l.evals : e.done } }

\* the process exits: nothing but the two files survives
Exit ==
    /\ pc = "done"
    /\ prev_log' =
          [ failed |-> log.failed,
            left   |-> { c \in log.cands :
                           /\ PlayerKey(c.username, c.color)
                                  \notin cache_file.checked_players_by_match[c.match]
                           /\ c.match \notin cache_file.checked_matches },
            final  |-> RemoteFinal,
            cut    |-> "no",
            ever   |-> prev_log.ever \cup Evaluated(log) ]
    /\ checked_players_by_match' = [m \in Matches |-> {}]
    /\ checked_boards' = {}
    /\ checked_matches' = {}
    /\ player_boards_by_match' = [m \in Matches |-> << >>]
    /\ candidates_by_board' = [b \in Boards |-> << >>]
    /\ board_order' = << >>
    /\ match_player_set' = [m \in Matches |-> {}]
    /\ match_board_urls' = [m \in Matches |-> {}]
    /\ results' = << >>
    /\ log' = EmptyLog
    /\ mi' = 1
    /\ bi' = 1
    /\ pc' = "idle"
    /\ UNCHANGED <<envVars, fileVars>>

(***************************************************************************)
(* Specification                                                           *)
(***************************************************************************)
Next ==
    \/ \E m \in Matches : AdvanceStatus(m)
    \/ \E g \in Games : PlayMove(g)
    \/ \E g \in Games : EndGame(g)
    \/ StartRun
    \/ CollectMatch
    \/ ProcessBoard
    \/ BoardsDone
    \/ Promote
    \/ WriteResults
    \/ WriteCache
    \/ Exit

Spec == Init /\ [][Next]_vars

(***************************************************************************)
(* Repeated runs under fair scheduling                                     *)
(***************************************************************************)
\* the detector is first run late in the season: M1 is being played and only
\* g3 is still open, M2 was forfeited and M3 is finished
LateInit ==
    /\ status = [m \in Matches |-> IF m \in Live THEN "in_progress" ELSE "finished"]
    /\ games = [g \in Games |->
                  IF g = "g3" THEN [white |-> "", black |-> "", moves |-> threshold]
                  ELSE [white |-> "resigned", black |-> "win", moves |-> threshold]]
    /\ cache_file = EmptyCache
    /\ out_file = << >>
    /\ pc = "idle"
    /\ mi = 1
    /\ bi = 1
    /\ checked_players_by_match = [m \in Matches |-> {}]
    /\ checked_boards = {}
    /\ checked_matches = {}
    /\ player_boards_by_match = [m \in Matches |-> << >>]
    /\ candidates_by_board = [b \in Boards |-> << >>]
    /\ board_order = << >>
    /\ match_player_set = [m \in Matches |-> {}]
    /\ match_board_urls = [m \in Matches |-> {}]
    /\ results = << >>
    /\ log = EmptyLog
    /\ prev_log = EmptyPrev

\* the remote data moves on
RemoteStep ==
    \/ \E m \in Matches : AdvanceStatus(m)
    \/ \E g \in Games : PlayMove(g)
    \/ \E g \in Games : EndGame(g)

\* a step of main(), from the start of the process to its exit
RunStep ==
    \/ StartRun
    \/ CollectMatch
    \/ ProcessBoard
    \/ BoardsDone
    \/ Promote
    \/ WriteResults
    \/ WriteCache
    \/ Exit

\* the collector handles match m and no fetch fails
MatchStepOK(m) ==
    /\ CollectMatch
    /\ MatchOrder[mi] = m
    /\ log'.failed = log.failed

\* the classifier handles board b and no fetch fails
BoardStepOK(b) ==
    /\ ProcessBoard
    /\ board_order[bi] = b
    /\ log'.failed = log.failed

\* the script is run again and again and each run goes to its end; the
\* remote data reaches its final snapshot; the fetch of a url that is
\* tried again and again succeeds again and again
Fairness ==
    /\ WF_vars(RunStep)
    /\ SF_vars(RemoteStep)
    /\ \A m \in Matches : SF_vars(MatchStepOK(m))
    /\ \A b \in Boards : SF_vars(BoardStepOK(b))

FairSpec == LateInit /\ [][Next]_vars /\ Fairness

(***************************************************************************)
(* Killed runs and a lost cache file                                       *)
(***************************************************************************)
\* the process is killed: before any write, or between the write of the
\* result file and the write of the cache file; the files stay as they are
Interrupt ==
    /\ pc \in {"collect", "boards", "promote", "write_results", "write_cache"}
    /\ prev_log' =
          [ failed |-> log.failed,
            left   |-> {},
            final  |-> RemoteFinal,
            cut    |-> IF pc = "write_cache" THEN "after_results" ELSE "before_write",
            ever   |-> prev_log.ever \cup Evaluated(log) ]
    /\ checked_players_by_match' = [m \in Matches |-> {}]
    /\ checked_boards' = {}
    /\ checked_matches' = {}
    /\ player_boards_by_match' = [m \in Matches |-> << >>]
    /\ candidates_by_board' = [b \in Boards |-> << >>]
    /\ board_order' = << >>
    /\ match_player_set' = [m \in Matches |-> {}]
    /\ match_board_urls' = [m \in Matches |-> {}]
    /\ results' = << >>
    /\ log' = EmptyLog
    /\ mi' = 1
    /\ bi' = 1
    /\ pc' = "idle"
    /\ UNCHANGED <<envVars, fileVars>>

\* the cache file is deleted or unreadable: the next run loads cache = {}
LoseCache ==
    /\ pc = "idle"
    /\ cache_file # EmptyCache
    /\ cache_file' = EmptyCache
    /\ prev_log' = [EmptyPrev EXCEPT !.ever = prev_log.ever]
    /\ UNCHANGED <<envVars, out_file, pc, mi, bi, memVars, workVars, results, log>>

OpsNext ==
    \/ Next
    \/ Interrupt
    \/ LoseCache

OpsSpec == LateInit /\ [][OpsNext]_vars

(***************************************************************************)
(* A cache file the runs of this script did not write                      *)
(***************************************************************************)
\* the cache file found by the first run lists boards in checked_boards and
\* has no per-player entry for them (a file carried over or edited by hand)
StaleInit ==
    /\ status = [m \in Matches |-> IF m \in Live THEN "in_progress" ELSE "finished"]
    /\ games = [g \in Games |->
                  IF g = "g3" THEN [white |-> "", black |-> "", moves |-> threshold]
                  ELSE [white |-> "resigned", black |-> "win", moves |-> threshold]]
    /\ \E bs \in (SUBSET Boards) \ {{}} :
          cache_file = [EmptyCache EXCEPT !.checked_boards = bs]
    /\ out_file = << >>
    /\ pc = "idle"
    /\ mi = 1
    /\ bi = 1
    /\ checked_players_by_match = [m \in Matches |-> {}]
    /\ checked_boards = {}
    /\ checked_matches = {}
    /\ player_boards_by_match = [m \in Matches |-> << >>]
    /\ candidates_by_board = [b \in Boards |-> << >>]
    /\ board_order = << >>
    /\ match_player_set = [m \in Matches |-> {}]
    /\ match_board_urls = [m \in Matches |-> {}]
    /\ results = << >>
    /\ log = EmptyLog
    /\ prev_log = EmptyPrev

StaleSpec == StaleInit /\ [][Next]_vars

TypeOK ==
    /\ status \in [Matches -> Statuses]
    /\ pc \in {"idle", "collect", "boards", "promote", "write_results", "write_cache", "done"}
    /\ checked_matches \subseteq Matches
    /\ checked_boards \subseteq Boards
    /\ \A g \in Games : games[g].moves \in 0..MaxMoves

(***************************************************************************)
(* Vocabulary of the properties                                            *)
(***************************************************************************)
InRun == pc \in {"collect", "boards", "promote", "write_results", "write_cache"}

\* the collector has finished and the classifier has not started
Collected == pc = "boards" /\ bi = 1

PlayerRecords(file) == { file[i] : i \in 1..Len(file) }

\* the side of game g on which username sits
SideOf(g, username) == IF white_user(g) = username THEN "white" ELSE "black"

\* the game of a PMC: the one in which username plays color
OwnGame(m, username, color) ==
    CHOOSE g \in Games :
        /\ GameMatch(g) = m
        /\ IF color = "white" THEN white_user(g) = username ELSE black_user(g) = username

\* the board the match detail assigns to a PMC
PMCBoard(m, username, color) ==
    LET tp == TeamPlayers(m)
    IN  tp[CHOOSE i \in 1..Len(tp) : tp[i].username = username /\ tp[i].color = color].board

\* own result definitive, or move count above the threshold
Resolvable(g, side) ==
    \/ games[g][side] \in DEFINITIVE_RESULTS
    \/ games[g].moves > threshold

RecordsOf(file, m, username, g) ==
    { i \in 1..Len(file) :
        file[i].matchUrl = m /\ file[i].username = username /\ file[i].game_api = g }

ResolvedInCacheFile(m, username, color) ==
    \/ PlayerKey(username, color) \in cache_file.checked_players_by_match[m]
    \/ m \in cache_file.checked_matches

(***************************************************************************)
(* C1 - No false positives: every record emitted by a run or held by the   *)
(* result file names a game in which the recorded player's own side has    *)
(* result exactly "resigned" and whose move count is <= threshold; a game  *)
(* in which only the opponent resigned never yields a record.              *)
(***************************************************************************)
C1_NoFalsePositives ==
    \A p \in PlayerRecords(results) \cup PlayerRecords(out_file) :
        /\ p.username \in {white_user(p.game_api), black_user(p.game_api)}
        /\ games[p.game_api][SideOf(p.game_api, p.username)] = "resigned"
        /\ games[p.game_api].moves <= threshold
        /\ p.moves_ply = games[p.game_api].moves

\* a candidate was settled on an early game that its opponent resigned
C1_Witness ==
    /\ pc = "done"
    /\ \E ev \in log.evals :
          /\ ev.done
          /\ ev.result = "win"
          /\ ev.moves <= threshold
          /\ Termination(ev.game) = "won by resignation"
          /\ RecordsOf(out_file, ev.match, ev.username, ev.game) = {}

(***************************************************************************)
(* C2 - A PMC (u, c, M) is marked resolved by the classifier only on its   *)
(* own game, the game in which u plays color c, and only when that game    *)
(* has a definitive result for u or a move count above the threshold.      *)
(***************************************************************************)
C2_ResolvedOnlyOnOwnGame ==
    \A ev \in log.evals :
        ev.done =>
            /\ ev.game = OwnGame(ev.match, ev.username, ev.color)
            /\ Resolvable(ev.game, ev.color)

(***************************************************************************)
(* C3 - After a successful board fetch a candidate is marked resolved in   *)
(* that run if and only if its own game is resolvable; a candidate whose   *)
(* own game is open and within the threshold stays out of                  *)
(* checked_players_by_match and emits no record.                           *)
(***************************************************************************)
C3_ResolvedIffOwnGameResolvable ==
    pc = "boards" =>
        \A c \in log.cands :
            PMCBoard(c.match, c.username, c.color) \in log.fetched \ log.failed =>
                LET own == OwnGame(c.match, c.username, c.color)
                IN  /\ PlayerKey(c.username, c.color) \in checked_players_by_match[c.match]
                          <=> Resolvable(own, c.color)
                    /\ ~Resolvable(own, c.color) =>
                          \A p \in PlayerRecords(results) :
                              ~(p.matchUrl = c.match /\ p.username = c.username)

(***************************************************************************)
(* C4 - Threshold boundary: a candidate whose own result is "resigned" in  *)
(* a game of exactly threshold half-moves gets a record (in the run's      *)
(* results, and in the result file once written); at threshold + 1         *)
(* half-moves it gets none.                                                *)
(***************************************************************************)
C4_ThresholdBoundary ==
    \A ev \in log.evals :
        ev.result = "resigned" =>
            /\ ev.moves = threshold =>
                  /\ RecordsOf(results, ev.match, ev.username, ev.game) # {}
                  /\ pc \in {"write_cache", "done"} =>
                        RecordsOf(out_file, ev.match, ev.username, ev.game) # {}
            /\ ev.moves = threshold + 1 =>
                  /\ RecordsOf(results, ev.match, ev.username, ev.game) = {}
                  /\ RecordsOf(out_file, ev.match, ev.username, ev.game) = {}

\* one run saw a resignation at the threshold and one just above it
C4_Witness ==
    /\ pc = "done"
    /\ \E ev \in log.evals :
          /\ ev.result = "resigned" /\ ev.moves = threshold
          /\ RecordsOf(out_file, ev.match, ev.username, ev.game) # {}
    /\ \E ev \in log.evals :
          /\ ev.result = "resigned" /\ ev.moves = threshold + 1
          /\ RecordsOf(out_file, ev.match, ev.username, ev.game) = {}

(***************************************************************************)
(* C5 - When a candidate is resolved on a game in which its result is      *)
(* "resigned" at <= threshold half-moves, the result file written by the   *)
(* run holds exactly one record of that player and game, under the         *)
(* match's league and sub-league, with the side played, the move count,    *)
(* the game and the board; and the cache file counts the PMC as resolved.  *)
(***************************************************************************)
C5_OneRecordAndResolved ==
    pc = "done" =>
        \A ev \in log.evals :
            ev.early =>
                /\ Cardinality(RecordsOf(out_file, ev.match, ev.username, ev.game)) = 1
                /\ \A i \in RecordsOf(out_file, ev.match, ev.username, ev.game) :
                      out_file[i] =
                          [ league    |-> League(ev.match),
                            subLeague |-> SubLeague(ev.match),
                            matchUrl  |-> ev.match,
                            username  |-> ev.username,
                            color     |-> SideOf(ev.game, ev.username),
                            moves_ply |-> games[ev.game].moves,
                            game_api  |-> ev.game,
                            board_api |-> PMCBoard(ev.match, ev.username, ev.color) ]
                /\ ResolvedInCacheFile(ev.match, ev.username, ev.color)

\* alice:white was resolved on her own resigned game at the threshold
C5_Witness ==
    /\ pc = "done"
    /\ \E ev \in log.evals :
          /\ ev.early
          /\ ev.color = SideOf(ev.game, ev.username)
          /\ ev.moves = threshold
          /\ Cardinality(RecordsOf(out_file, ev.match, ev.username, ev.game)) = 1
          /\ ResolvedInCacheFile(ev.match, ev.username, ev.color)

(***************************************************************************)
(* C6 - If the fetch of a board fails, then in that run none of the        *)
(* board's candidates is marked done, the board is not added to            *)
(* checked_boards, no record is emitted for them, the written cache does   *)
(* not count them resolved, and all of them are candidates again in the    *)
(* next run.                                                               *)
(***************************************************************************)
C6_FailedBoardUntouched ==
    /\ pc \in {"boards", "promote", "write_results", "write_cache", "done"} =>
          \A b \in log.failed \cap Boards :
              /\ b \notin checked_boards
              /\ pc = "done" => b \notin cache_file.checked_boards
              /\ \A i \in 1..Len(candidates_by_board[b]) :
                    LET c == candidates_by_board[b][i]
                    IN  /\ PlayerKey(c.username, c.color) \notin checked_players_by_match[c.match]
                        /\ c.match \notin checked_matches
                        /\ \A r \in PlayerRecords(results) :
                              ~(r.matchUrl = c.match /\ r.username = c.username /\ r.board_api = b)
                        /\ pc = "done" => ~ResolvedInCacheFile(c.match, c.username, c.color)
    /\ Collected =>
          \A c \in prev_log.left :
              PMCBoard(c.match, c.username, c.color) \in prev_log.failed => c \in log.cands

\* the run after a failed board fetch has enqueued the board's candidates again
C6_Witness ==
    /\ Collected
    /\ \E c \in prev_log.left :
          /\ PMCBoard(c.match, c.username, c.color) \in prev_log.failed
          /\ c \in log.cands

(***************************************************************************)
(* C7 - If the match-detail fetch of a match fails (or the tracked team is *)
(* not found in it), the run commits nothing for the match: no board map,  *)
(* no checked player, no expected set, no candidate, no promotion; and the *)
(* next run fetches the match detail again.                                *)
(***************************************************************************)
C7_FailedMatchFetchCommitsNothing ==
    /\ pc \in {"collect", "boards", "promote", "write_results", "write_cache", "done"} =>
          \A m \in log.failed \cap Matches :
              /\ DOMAIN player_boards_by_match[m] = {}
              /\ checked_players_by_match[m] = {}
              /\ match_player_set[m] = {}
              /\ match_board_urls[m] = {}
              /\ \A c \in log.cands : c.match # m
              /\ m \notin checked_matches
              /\ pc = "done" =>
                    /\ DOMAIN cache_file.player_boards_by_match[m] = {}
                    /\ cache_file.checked_players_by_match[m] = {}
                    /\ m \notin cache_file.checked_matches
    /\ Collected =>
          \A m \in prev_log.failed \cap Matches : m \in log.fetched

\* the run after a failed match-detail fetch has fetched the detail again
C7_Witness ==
    /\ Collected
    /\ \E m \in prev_log.failed \cap Matches : m \in log.fetched

(***************************************************************************)
(* C8 - Invariant I4: a PMC that the persisted cache counts as resolved    *)
(* stays resolved in every later persisted cache (as a checked player or   *)
(* through its promoted match), and no run enqueues as a fetch candidate   *)
(* a PMC that the cache it started from counts as resolved.                *)
(***************************************************************************)
C8_NoCandidateResolved ==
    InRun =>
        \A c \in log.cands :
            /\ PlayerKey(c.username, c.color) \notin cache_file.checked_players_by_match[c.match]
            /\ c.match \notin cache_file.checked_matches

C8_StaysResolved ==
    \A m \in Matches :
        /\ m \in cache_file.checked_matches => m \in cache_file'.checked_matches
        /\ \A k \in cache_file.checked_players_by_match[m] :
              \/ k \in cache_file'.checked_players_by_match[m]
              \/ m \in cache_file'.checked_matches

C8_ResolvedNeverRequeried == [] C8_NoCandidateResolved /\ [][C8_StaysResolved]_vars

\* a run over a match that is not promoted, with one PMC resolved by an
\* earlier run and another one enqueued
C8_Witness ==
    /\ Collected
    /\ \E m \in Matches :
          /\ m \notin cache_file.checked_matches
          /\ cache_file.checked_players_by_match[m] # {}
          /\ cache_file.checked_players_by_match[m] \subseteq match_player_set[m]
          /\ \E c \in log.cands : c.match = m

(***************************************************************************)
(* C9 - De-duplication: a run fetches a board only if the cache it started *)
(* from does not hold the board in checked_boards and leaves at least one  *)
(* PMC of the board unresolved.                                            *)
(***************************************************************************)
BoardPMCs(b) ==
    { pm \in Matches \X Users \X Colors :
        \E i \in 1..Len(TeamPlayers(pm[1])) :
            /\ TeamPlayers(pm[1])[i].username = pm[2]
            /\ TeamPlayers(pm[1])[i].color = pm[3]
            /\ TeamPlayers(pm[1])[i].board = b }

AllResolvedAtStart(b) ==
    \A pm \in BoardPMCs(b) : ResolvedInCacheFile(pm[1], pm[2], pm[3])

C9_ResolvedBoardNotFetched ==
    InRun =>
        \A b \in Boards :
            (AllResolvedAtStart(b) \/ b \in cache_file.checked_boards) => b \notin log.fetched

\* the classifier went over a visited match one board of which was fully
\* resolved before the run: that board was not fetched, the other one was
C9_Witness ==
    /\ pc = "promote"
    /\ \E b \in Boards, m \in Matches :
          /\ BoardPMCs(b) # {}
          /\ AllResolvedAtStart(b)
          /\ \A pm \in BoardPMCs(b) : pm[1] = m
          /\ m \notin cache_file.checked_matches
          /\ match_player_set[m] # {}
          /\ b \notin log.fetched
          /\ log.fetched \cap Boards # {}

(***************************************************************************)
(* C10 - Promotion condition: the promotion step adds a match to           *)
(* checked_matches if and only if the match has an expected player set in  *)
(* this run and every key of that set is in checked_players_by_match for   *)
(* the match at that moment.                                               *)
(***************************************************************************)
C10_Promotes ==
    pc = "promote" =>
        \A m \in Matches :
            (m \in checked_matches' /\ m \notin checked_matches)
                <=> /\ match_player_set[m] # {}
                    /\ match_player_set[m] \subseteq checked_players_by_match[m]

C10_PromotionCondition == [][C10_Promotes]_vars

\* the promotion step has promoted a match, and the match has an expected set
C10_Witness ==
    /\ pc = "write_results"
    /\ \E m \in Matches :
          /\ match_player_set[m] # {}
          /\ m \in checked_matches
          /\ m \notin cache_file.checked_matches

(***************************************************************************)
(* C11 - Invariant I1 against the remote truth: the promotion step adds a  *)
(* match to checked_matches only when every player key of the match that   *)
(* the remote match detail lists for the tracked team is in                *)
(* checked_players_by_match, also when the expected set comes from a       *)
(* cached board map and when some player has no board url.                 *)
(***************************************************************************)
RemotePMCs(m) ==
    { PlayerKey(TeamPlayers(m)[i].username, TeamPlayers(m)[i].color) :
        i \in 1..Len(TeamPlayers(m)) }

C11_Promotes ==
    pc = "promote" =>
        \A m \in Matches :
            (m \in checked_matches' /\ m \notin checked_matches) =>
                RemotePMCs(m) \subseteq checked_players_by_match[m]

C11_PromotedOnlyWhenAllResolved == [][C11_Promotes]_vars

(***************************************************************************)
(* C12 - In the cache file, no match of checked_matches has an entry in    *)
(* checked_players_by_match.                                               *)
(***************************************************************************)
C12_PromotedHasNoPlayerEntry ==
    \A m \in cache_file.checked_matches :
        cache_file.checked_players_by_match[m] = {}

(***************************************************************************)
(* C13 - When a match is promoted every board of the match leaves          *)
(* checked_boards: the cache file holds no board all of whose PMCs belong  *)
(* to matches of checked_matches.                                          *)
(***************************************************************************)
C13_NoBoardOfPromotedMatch ==
    \A b \in cache_file.checked_boards :
        \E pm \in BoardPMCs(b) : pm[1] \notin cache_file.checked_matches

(***************************************************************************)
(* C14 - Invariant I3: in the cache file no match of checked_matches,      *)
(* promoted or auto-cached as a forfeit, has a player_boards_by_match      *)
(* entry.                                                                  *)
(***************************************************************************)
C14_PromotedHasNoBoardMap ==
    \A m \in cache_file.checked_matches :
        DOMAIN cache_file.player_boards_by_match[m] = {}

\* a run that used the cached board map of a match has promoted the match
\* and written the cache
C14_Witness ==
    /\ pc = "done"
    /\ \E m \in cache_file.checked_matches :
          /\ match_player_set[m] # {}
          /\ \E c \in prev_log.left : c.match = m

(***************************************************************************)
(* C15 - Invariant I2: in the cache file, every PMC that                   *)
(* player_boards_by_match maps to a board of checked_boards is in          *)
(* checked_players_by_match for its match.                                 *)
(***************************************************************************)
C15_CheckedBoardAllResolved ==
    \A b \in cache_file.checked_boards :
        \A m \in Matches :
            \A k \in DOMAIN cache_file.player_boards_by_match[m] :
                cache_file.player_boards_by_match[m][k] = b =>
                    k \in cache_file.checked_players_by_match[m]

\* the cache file holds a checked board of a match that is not promoted and
\* still has an unresolved player on another board
C15_Witness ==
    \E b \in cache_file.checked_boards, m \in Matches :
        /\ m \notin cache_file.checked_matches
        /\ \E k \in DOMAIN cache_file.player_boards_by_match[m] :
              cache_file.player_boards_by_match[m][k] = b
        /\ \E k \in DOMAIN cache_file.player_boards_by_match[m] :
              k \notin cache_file.checked_players_by_match[m]

C19_NoDuplicateRecord ==
    \A i, j \in 1..Len(out_file) :
        ( /\ out_file[i].matchUrl = out_file[j].matchUrl
          /\ out_file[i].username = out_file[j].username
          /\ out_file[i].color = out_file[j].color
          /\ out_file[i].game_api = out_file[j].game_api ) => i = j

\* a run in which two candidates produced an entry for the same game of the
\* same player, and the written file holds it once, next to another record
C19_Witness ==
    /\ pc = "done"
    /\ Len(out_file) >= 2
    /\ \E e1, e2 \in log.evals :
          /\ e1 # e2
          /\ e1.early /\ e2.early
          /\ e1.match = e2.match /\ e1.username = e2.username /\ e1.game = e2.game
          /\ Cardinality(RecordsOf(out_file, e1.match, e1.username, e1.game)) = 1

(***************************************************************************)
(* C20 - The result merge is append-only: every record of the result file  *)
(* before a step is still in it, unchanged and at the same place, after    *)
(* the step; the file only grows.                                          *)
(***************************************************************************)
C20_Grows ==
    /\ Len(out_file') >= Len(out_file)
    /\ \A i \in 1..Len(out_file) : out_file'[i] = out_file[i]

C20_AppendOnly == [][C20_Grows]_vars

\* a run that merged new records into a file that already had some
C20_Witness ==
    /\ pc = "write_cache"
    /\ results # << >>
    /\ Len(out_file) > Len(results)

(***************************************************************************)
(* C17 - Idempotence: a run over the same match data and remote data as    *)
(* the run before it, both without a failed fetch, adds no record to the   *)
(* result file and writes a cache equal to the one it loaded.              *)
(***************************************************************************)
C17_SecondRunChangesNothing ==
    ( /\ pc \in {"write_results", "write_cache"}
      /\ prev_log.final
      /\ prev_log.failed = {}
      /\ log.failed = {} ) =>
        /\ out_file' = out_file
        /\ cache_file' = cache_file

C17_Idempotent == [][C17_SecondRunChangesNothing]_vars

(***************************************************************************)
(* C18 - Monotonic convergence: once the remote data has reached its final *)
(* snapshot (all matches finished), and fetches eventually succeed,        *)
(* repeated runs reach a state in which every PMC is resolved and every    *)
(* in_progress/finished match is in checked_matches of the written cache.  *)
(***************************************************************************)
C18_AllResolved ==
    /\ RemoteFinal
    /\ \A m \in Matches :
          /\ status[m] \in {"in_progress", "finished"} => m \in cache_file.checked_matches
          /\ \A k \in RemotePMCs(m) :
                k \in cache_file.checked_players_by_match[m] \/ m \in cache_file.checked_matches

C18_Converges == <>C18_AllResolved

C22_KeepsPromoted == cache_file.checked_matches \subseteq cache_file'.checked_matches

C22_PromotionNeverReversed == [][C22_KeepsPromoted]_vars

\* a later run is about to write the cache again, with a match that an
\* earlier run promoted on its resolved players still in checked_matches
C22_Witness ==
    /\ pc = "write_cache"
    /\ \E m \in cache_file.checked_matches :
          /\ TeamPlayers(m) # << >>
          /\ m \in checked_matches
          /\ m \notin log.fetched

(***************************************************************************)
(* C23 - Collector scope: a match whose status is neither in_progress nor  *)
(* finished, or that is in checked_matches of the cache the run loaded,    *)
(* causes no fetch (match detail or board), no candidate and no record in  *)
(* that run, and the run changes no cache tier for it.                     *)
(***************************************************************************)
C23_OutOfScope(m) ==
    \/ status[m] \notin {"in_progress", "finished"}
    \/ m \in cache_file.checked_matches

C23_NoWork(m) ==
    /\ m \notin log.fetched
    /\ \A b \in log.fetched \cap Boards : \A pm \in BoardPMCs(b) : pm[1] # m
    /\ \A c \in log.cands : c.match # m
    /\ \A i \in 1..Len(results) : results[i].matchUrl # m

C23_TiersKept(m) ==
    pc = "write_cache" =>
        /\ checked_players_by_match[m] = cache_file.checked_players_by_match[m]
        /\ (m \in checked_matches) = (m \in cache_file.checked_matches)
        /\ \A b \in Boards :
              (\E pm \in BoardPMCs(b) : pm[1] = m) =>
                  ((b \in checked_boards) = (b \in cache_file.checked_boards))
        /\ m \notin checked_matches =>
              player_boards_by_match[m] = cache_file.player_boards_by_match[m]

C23_SkippedMatchUntouched ==
    InRun => \A m \in Matches : C23_OutOfScope(m) => C23_NoWork(m) /\ C23_TiersKept(m)

(***************************************************************************)
(* C24 - A match with a player_boards_by_match map in the cache the run    *)
(* loaded gets no match-detail fetch in that run; a match-detail fetch is  *)
(* issued only for a visited match (in_progress or finished, not in        *)
(* checked_matches, no forfeit) that has no cached map.                    *)
(***************************************************************************)
C24_FetchOnlyWithoutMap ==
    InRun =>
        \A m \in Matches :
            /\ DOMAIN cache_file.player_boards_by_match[m] # {} => m \notin log.fetched
            /\ m \in log.fetched =>
                  /\ status[m] \in {"in_progress", "finished"}
                  /\ m \notin cache_file.checked_matches
                  /\ ~Forfeit(m)
                  /\ DOMAIN cache_file.player_boards_by_match[m] = {}

\* the collector went over a match with a cached map: its candidates are
\* enqueued from the map and no match detail was fetched
C24_Witness ==
    /\ Collected
    /\ \E m \in Matches :
          /\ DOMAIN cache_file.player_boards_by_match[m] # {}
          /\ \E c \in log.cands : c.match = m
          /\ m \notin log.fetched

(***************************************************************************)
(* C25 - Interrupted run: a run killed before any write leaves both files  *)
(* as they were, so the next run starts where the killed run started; a    *)
(* run killed between the write of the result file and the write of the   *)
(* cache file has written the records an uninterrupted run writes, and the *)
(* next complete run over the same remote data adds no record to them; the *)
(* result file never holds a record twice.                                 *)
(***************************************************************************)
C25_KilledRunKeepsFiles ==
    (pc \in {"collect", "boards", "promote", "write_results", "write_cache"} /\ pc' = "idle") =>
        /\ cache_file' = cache_file
        /\ out_file' = out_file

C25_RerunAddsNothing ==
    ( /\ pc = "write_results"
      /\ prev_log.cut = "after_results"
      /\ prev_log.final
      /\ prev_log.failed = {}
      /\ log.failed = {}
      /\ pc' = "write_cache" ) => out_file' = out_file

C25_NoDuplicate ==
    \A i, j \in 1..Len(out_file') :
        ( /\ out_file'[i].matchUrl = out_file'[j].matchUrl
          /\ out_file'[i].username = out_file'[j].username
          /\ out_file'[i].color = out_file'[j].color
          /\ out_file'[i].game_api = out_file'[j].game_api ) => i = j

C25_InterruptedRunRecovers ==
    [][C25_KilledRunKeepsFiles /\ C25_RerunAddsNothing /\ C25_NoDuplicate]_vars

\* the run after a run killed between the two writes has emitted records
\* again, and the merge has kept the file as the killed run wrote it
C25_Witness ==
    /\ pc = "write_cache"
    /\ prev_log.cut = "after_results"
    /\ prev_log.final
    /\ prev_log.failed = {}
    /\ log.failed = {}
    /\ results # << >>
    /\ \A i \in 1..Len(results) : \E j \in 1..Len(out_file) : out_file[j] = results[i]

(***************************************************************************)
(* C26 - Only finished matches are promoted by the end-of-run promotion    *)
(* step: a match that is still in_progress is never added to               *)
(* checked_matches by it, even if every PMC of its expected set is         *)
(* resolved.                                                               *)
(***************************************************************************)
C26_PromotesFinished ==
    pc = "promote" =>
        \A m \in Matches :
            (m \in checked_matches' /\ m \notin checked_matches) => status[m] = "finished"

C26_OnlyFinishedPromoted == [][C26_PromotesFinished]_vars

(***************************************************************************)
(* C27 - If a board is in checked_boards of the cache the run loaded and   *)
(* still has outstanding candidates when the classifier reaches it, the    *)
(* run marks all of them resolved, fetches nothing for the board and emits *)
(* no record for them.                                                     *)
(***************************************************************************)
C27_CachedBoardStep ==
    ( /\ pc = "boards"
      /\ bi <= Len(board_order)
      /\ board_order[bi] \in cache_file.checked_boards
      /\ \E i \in 1..Len(candidates_by_board[board_order[bi]]) :
            LET c == candidates_by_board[board_order[bi]][i]
            IN  <<c.username, c.color>> \notin checked_players_by_match[c.match]
      /\ bi' = bi + 1 ) =>
        /\ \A i \in 1..Len(candidates_by_board[board_order[bi]]) :
              LET c == candidates_by_board[board_order[bi]][i]
              IN  <<c.username, c.color>> \in checked_players_by_match'[c.match]
        /\ log'.fetched = log.fetched
        /\ log'.evals = log.evals
        /\ results' = results

C27_StragglersMarkedWithoutFetch == [][C27_CachedBoardStep]_vars

\* the classifier has just passed a cached board: a candidate of the board
\* is resolved now, was not in the loaded cache, and the board was not fetched
C27_Witness ==
    /\ pc = "boards"
    /\ bi > 1
    /\ board_order[bi - 1] \in cache_file.checked_boards
    /\ board_order[bi - 1] \notin log.fetched
    /\ \E c \in log.cands :
          /\ PMCBoard(c.match, c.username, c.color) = board_order[bi - 1]
          /\ <<c.username, c.color>> \in checked_players_by_match[c.match]
          /\ <<c.username, c.color>> \notin cache_file.checked_players_by_match[c.match]
          /\ <<c.match, <<c.username, c.color>>>> \notin Evaluated(log)

(***************************************************************************)
(* C28 - Every (username, color) the result file records under a match is  *)
(* treated as resolved for that match from the start of a run: the         *)
(* collector never enqueues it as a candidate, and a recorded game of a    *)
(* player is in the file once, also when the run started with an empty or  *)
(* lost cache.                                                             *)
(***************************************************************************)
C28_RecordedNotEnqueued ==
    /\ pc \in {"collect", "boards", "promote", "write_results"} =>
          \A i \in 1..Len(out_file) :
              \A c \in log.cands :
                  ~ ( /\ c.match = out_file[i].matchUrl
                      /\ c.username = out_file[i].username
                      /\ c.color = out_file[i].color )
    /\ \A i \in 1..Len(out_file) :
          Cardinality({ j \in 1..Len(out_file) :
                          /\ out_file[j].matchUrl = out_file[i].matchUrl
                          /\ out_file[j].username = out_file[i].username
                          /\ out_file[j].game_api = out_file[i].game_api }) = 1

\* a run that started with an empty cache and a result file with a record
\* has fetched the match of the record and enqueued other players of it
C28_Witness ==
    /\ Collected
    /\ cache_file = EmptyCache
    /\ \E i \in 1..Len(out_file) :
          /\ out_file[i].matchUrl \in log.fetched
          /\ out_file[i].matchUrl \notin log.failed
          /\ \E c \in log.cands : c.match = out_file[i].matchUrl

(***************************************************************************)
(* C29 - Every record emitted for a candidate PMC (u, c) carries color c   *)
(* and names a game in which u plays color c: the color of a record of the *)
(* result file never differs from the color of the player key that was     *)
(* marked resolved with it.                                                *)
(***************************************************************************)
C29_RecordColorIsCandidateColor ==
    pc = "done" =>
        \A ev \in log.evals :
            ev.early =>
                \A i \in RecordsOf(out_file, ev.match, ev.username, ev.game) :
                    /\ out_file[i].color = ev.color
                    /\ IF ev.color = "white"
                       THEN white_user(out_file[i].game_api) = ev.username
                       ELSE black_user(out_file[i].game_api) = ev.username

(***************************************************************************)
(* C30 - No missed detection: for every tracked-team PMC (u, c, M) with a  *)
(* board url, if the game in which u plays c has ended with u's result     *)
(* "resigned" at a move count <= threshold and the PMC is resolved in the  *)
(* cache a run has just written (in checked_players_by_match or covered by *)
(* checked_matches), the result file holds a record of that game.          *)
(***************************************************************************)
C30_NoMissedDetection ==
    pc = "done" =>
        \A m \in Matches :
            \A i \in 1..Len(TeamPlayers(m)) :
                LET p == TeamPlayers(m)[i]
                    g == OwnGame(m, p.username, p.color)
                IN  ( /\ p.board # None
                      /\ games[g][p.color] = "resigned"
                      /\ games[g].moves <= threshold
                      /\ \/ <<p.username, p.color>> \in cache_file.checked_players_by_match[m]
                         \/ m \in cache_file.checked_matches ) =>
                        \E j \in 1..Len(out_file) :
                            /\ out_file[j].matchUrl = m
                            /\ out_file[j].username = p.username
                            /\ out_file[j].game_api = g

====
